---- MODULE Spec2Model ----
(***************************************************************************)
(* Firestore export tool: the export driver (main), its checkpoint file    *)
(* (.export-state.json) and the flush of streamCollections.                *)
(*                                                                         *)
(* A behaviour is a sequence of runs of the command-line tool on one       *)
(* machine.  The state file survives from one run to the next; everything  *)
(* else is rebuilt by the start of a run.  A run can be killed at any      *)
(* point between two file-system operations (Crash).                       *)
(*                                                                         *)
(* Assumptions: writeFileSync and unlinkSync are atomic (a kill never       *)
(* leaves a half-written state file); initializeFirebase and               *)
(* getRootCollections succeed.  The store has the root collections "a"     *)
(* (whose documents own MaxSubTables kinds of sub-collection) and "b"      *)
(* (whose documents own none); the walk of a subtree is one step here,     *)
(* the flush one step per table.  Timestamps (startedAt, lastUpdated) and  *)
(* the statistics main prints are left out.                                *)
(***************************************************************************)
EXTENDS Integers, Sequences, FiniteSets, TLC

\* Number of sub-collection types under the documents of root collection "a".
MaxSubTables == 1

\* The root collections of the store, in the order listCollections reports them.
RootCollections == <<"a", "b">>

Names == {RootCollections[k] : k \in DOMAIN RootCollections}

\* The values of --format.  The option is not validated (main, line 32 of
\* part_000): "xml" stands for every string that is none of the three.
Formats == {"json", "sql", "both", "xml"}

NoError == "NoError"

\* The state file does not exist (loadState returns null).
NoFile == [exists |-> FALSE, format |-> "", requestedCollections |-> <<>>,
           completed |-> <<>>, lastError |-> NoError]

NoCrash == [format |-> "", crashed |-> FALSE, collections |-> <<>>, persisted |-> {},
            inflight |-> {}, failed |-> {}, traversed |-> {}]

RangeOf(s) == {s[k] : k \in DOMAIN s}

\* The --collections lists: every list of names no longer than the list of
\* root collections, duplicates included (commander hands over whatever was
\* typed); the empty list stands for the option left out.
CollectionLists == UNION {[1..n -> Names] : n \in 0..Len(RootCollections)}

VARIABLES
    stateFile,            \* contents of .export-state.json, or NoFile
    options,              \* program.opts(): collections, format, resume, reset
    continueOnError,      \* config.continueOnError
    pc,                   \* position of main()
    savedState,           \* what loadState() returned to the resume check
    collectionsToExport,
    completedCollections, \* a JS Set: insertion-ordered, no duplicates
    resuming,
    remainingCollections,
    i,                    \* loop index of main (1-based here)
    currentState,         \* the in-memory checkpoint object
    documentsByPath,      \* streamCollections: keys of the Map, insertion order
    t,                    \* streamCollections: position of the flush loop
    written,              \* artifacts written by the streamCollections call in progress
    log,                  \* history: one entry per streamCollections call of this run
    found,                \* history: the state file the process found when it started
    crash                 \* history: the crash this run restarts from (or just suffered)

\* One call of streamCollections in detail (StreamSpec).
VARIABLES
    store,                \* the subtree: collection path -> ids of its documents, in key order
    queue,                \* streamCollections: the work queue
    processedPaths,       \* streamCollections: the Set of paths already dequeued
    current,              \* streamCollections: the node being processed and its documents
    byPath,               \* streamCollections: the Map documentsByPath, in insertion order
    results,              \* streamCollections: the counters it returns
    flushIndex,           \* streamCollections: position of the flush loop
    spc,                  \* position of streamCollections
    sinkCalls,            \* history: the calls of exportToJson / exportToSql, in order
    dequeued              \* history: the nodes taken from the queue, in order

\* One application of a function of lib/transformers.js, lib/collector.js or
\* the exporters (FnSpec).
VARIABLES
    call,                 \* the function applied and its arguments
    ret                   \* what it returned

\* One call of collectDocuments in detail (PageSpec).
VARIABLES
    collectionRef,        \* the keys of the documents the collection holds now
    batchSize,            \* config.batchSize
    pageDocuments,        \* collectDocuments: the array `documents`
    lastDoc,              \* collectDocuments: the cursor (0: null)
    batchNumber,          \* collectDocuments: the pages that held a document
    ppc,                  \* position of collectDocuments
    fetches,              \* history: the number of query.get() calls
    stable,               \* history: the keys present since the call began
    changed,              \* history: another writer changed the collection
    writesAhead           \* history: another writer wrote a key after the cursor

streamVars == <<store, queue, processedPaths, current, byPath, results, flushIndex,
                spc, sinkCalls, dequeued>>

fnVars == <<call, ret>>

pageVars == <<collectionRef, batchSize, pageDocuments, lastDoc, batchNumber, ppc, fetches,
              stable, changed, writesAhead>>

unitVars == <<streamVars, fnVars, pageVars>>

driverVars == <<stateFile, options, continueOnError, pc, savedState, collectionsToExport,
                completedCollections, resuming, remainingCollections, i, currentState,
                documentsByPath, t, written, log, found, crash>>

vars == <<driverVars, unitVars>>

----
\* Array.prototype.sort() without comparator: UTF-16 code unit order.
CodeUnitOrder == <<"a", "b">>

CodeUnit(x) == CHOOSE k \in DOMAIN CodeUnitOrder : CodeUnitOrder[k] = x

RECURSIVE InsertSorted(_, _)
InsertSorted(x, s) ==
    IF s = <<>> THEN <<x>>
    ELSE IF CodeUnit(x) <= CodeUnit(Head(s)) THEN <<x>> \o s
    ELSE <<Head(s)>> \o InsertSorted(x, Tail(s))

RECURSIVE sort(_)
sort(s) == IF s = <<>> THEN <<>> ELSE InsertSorted(Head(s), sort(Tail(s)))

\* new Set(array): keeps the first occurrence of each element, in order.
RECURSIVE NewSet(_)
NewSet(s) ==
    IF s = <<>> THEN <<>>
    ELSE LET front == NewSet(SubSeq(s, 1, Len(s) - 1))
             last == s[Len(s)]
         IN  IF last \in RangeOf(front) THEN front ELSE Append(front, last)

\* Mutant: the filter keeps every collection.
filterRemaining_all(list, completed) == list

\* collectionsToExport.filter(c => !completedCollections.has(c))
filterRemaining(list, completed) ==
    SelectSeq(list, LAMBDA c : c \notin RangeOf(completed))

----
\* The store: the logical tables (normalized paths) that receive documents
\* when the subtree of a root collection is walked, in first-touch order.
\* A table is its sequence of collection names (<<"a", "orders">> is a__orders).
\* Documents of "a" own sub-collections, documents of "b" own none.
SubCollections == <<"orders", "items", "reviews", "tags">>

TablesOf ==
    [c \in Names |->
        IF c = "a"
        THEN <<(<<"a">>)>> \o [k \in 1..MaxSubTables |-> <<"a", SubCollections[k]>>]
        ELSE <<(<<c>>)>>]

\* Mutant: a format that is not recognised is taken as "both".
SinksOf_defaultBoth(format) ==
    (IF format # "sql" THEN {"json"} ELSE {}) \cup (IF format # "json" THEN {"sql"} ELSE {})

\* The sinks streamCollections invokes for a format.
SinksOf(format) ==
    (IF format \in {"json", "both"} THEN {"json"} ELSE {})
        \cup (IF format \in {"sql", "both"} THEN {"sql"} ELSE {})

----
\* No node of the tree is being processed.
NoNode == [path |-> <<>>, depth |-> 0, documents |-> <<>>, d |-> 1]

\* streamCollections is not being looked into.
StreamIdle ==
    /\ store = <<>>
    /\ queue = <<>>
    /\ processedPaths = {}
    /\ current = NoNode
    /\ byPath = <<>>
    /\ results = <<>>
    /\ flushIndex = 1
    /\ spc = "idle"
    /\ sinkCalls = <<>>
    /\ dequeued = <<>>

NoCall == [op |-> "none"]

NoRet == [nothing |-> TRUE]

\* No function is being applied.
FnIdle ==
    /\ call = NoCall
    /\ ret = NoRet

\* collectDocuments is not being looked into.
PageIdle ==
    /\ collectionRef = {}
    /\ batchSize = 1
    /\ pageDocuments = <<>>
    /\ lastDoc = 0
    /\ batchNumber = 0
    /\ ppc = "idle"
    /\ fetches = 0
    /\ stable = {}
    /\ changed = FALSE
    /\ writesAhead = FALSE

----
TypeOK ==
    /\ pc \in {"idle", "loop", "stream", "flush", "finished", "exit1", "crashed"}
    /\ continueOnError \in BOOLEAN
    /\ resuming \in BOOLEAN

\* The variables of main other than the options and the configuration, before
\* a run.
DriverRest ==
    /\ stateFile = NoFile
    /\ pc = "idle"
    /\ savedState = NoFile
    /\ collectionsToExport = <<>>
    /\ completedCollections = <<>>
    /\ resuming = FALSE
    /\ remainingCollections = <<>>
    /\ i = 1
    /\ currentState = NoFile
    /\ documentsByPath = <<>>
    /\ t = 1
    /\ written = {}
    /\ log = <<>>
    /\ found = "none"
    /\ crash = NoCrash

Init ==
    /\ options = [format |-> "both", collections |-> <<>>, resume |-> FALSE, reset |-> FALSE]
    /\ continueOnError = TRUE
    /\ DriverRest
    /\ StreamIdle
    /\ FnIdle
    /\ PageIdle

----
\* loadState(): the parsed file, or null when there is none.  The file holds
\* strings and arrays of strings only, which JSON.parse(JSON.stringify(x))
\* gives back unchanged; an absent lastError is NoError.
loadState(file) == file

\* Mutant: the write is skipped.
saveState_skipped(state) == stateFile

\* saveState(state): the file now holds the state.
saveState(state) == state

\* clearState(): unlink the file if it exists.
clearState(file) == NoFile

\* Mutant: the format is not compared.
sameFormat_ignored(saved, format) == TRUE

\* main, lines 136-138: the two comparisons of the resume check.
sameFormat(saved, format) == saved.format = format

\* Mutant: the two lists are compared as they are, without sorting.
sameCollections_unsorted(saved, toExport) == saved.requestedCollections = toExport

sameCollections(saved, toExport) ==
    sort(saved.requestedCollections) = sort(toExport)

\* main, lines 134-140: the saved state is taken over.
compatible(saved, format, toExport) ==
    saved.exists /\ sameFormat(saved, format) /\ sameCollections(saved, toExport)

\* Mutant: the saved completed list is dropped.
loadCompleted_none(saved, format, toExport) == <<>>

\* main, lines 129-151: the completed set a run starts with.
loadCompleted(saved, format, toExport) ==
    IF compatible(saved, format, toExport)
    THEN NewSet(saved.completed)
    ELSE <<>>

\* Mutant: --reset does nothing.
handleReset_skipped(reset, file) == file

\* main, line 109: --reset clears the state before anything else.
handleReset(reset, file) == IF reset THEN clearState(file) ELSE file

\* Mutant: the early return is never taken.
nothingLeft_never(remaining, isResuming) == FALSE

\* main, line 156: nothing is left to export on a resumed run.
nothingLeft(remaining, isResuming) == Len(remaining) = 0 /\ isResuming

\* main, lines 102-175: everything before the loop.
Start(opts, coe) ==
    /\ pc = "idle"
    /\ UNCHANGED unitVars
    /\ LET afterReset == handleReset(opts.reset, stateFile)
           given == IF Len(opts.collections) = 0 THEN RootCollections
                    ELSE opts.collections
           saved == IF opts.resume THEN loadState(afterReset) ELSE NoFile
           \* line 138 sorts collectionsToExport in place
           toExport == IF saved.exists THEN sort(given) ELSE given
           completed == loadCompleted(saved, opts.format, given)
           isResuming == compatible(saved, opts.format, given)
           remaining == filterRemaining(toExport, completed)
           allDone == nothingLeft(remaining, isResuming)
       IN  /\ options' = opts
           /\ continueOnError' = coe
           /\ savedState' = saved
           /\ collectionsToExport' = toExport
           /\ completedCollections' = completed
           /\ resuming' = isResuming
           /\ remainingCollections' = remaining
           /\ i' = 1
           /\ log' = <<>>
           /\ documentsByPath' = <<>>
           /\ t' = 1
           /\ written' = {}
           /\ found' = IF ~stateFile.exists THEN "none"
                       ELSE IF /\ stateFile.format = opts.format
                               /\ RangeOf(stateFile.requestedCollections) = RangeOf(given)
                            THEN "matching" ELSE "other"
           /\ crash' = IF /\ crash.crashed
                          /\ opts.resume /\ ~opts.reset
                          /\ opts.format = crash.format
                          /\ opts.collections = crash.collections
                       THEN crash ELSE NoCrash
           /\ IF allDone
              THEN /\ stateFile' = clearState(afterReset)
                   /\ currentState' = NoFile
                   /\ pc' = "finished"
              ELSE /\ stateFile' = afterReset
                   /\ currentState' = [exists |-> TRUE,
                                       format |-> opts.format,
                                       requestedCollections |-> toExport,
                                       completed |-> completed,
                                       lastError |-> NoError]
                   /\ pc' = "loop"

StartRun ==
    \E list \in CollectionLists, f \in Formats, rs \in BOOLEAN, rt \in BOOLEAN,
       coe \in BOOLEAN :
        Start([format |-> f, collections |-> list, resume |-> rs, reset |-> rt], coe)

SetStatus(status) == [log EXCEPT ![Len(log)].status = status]

\* Mutant: the call is not awaited; the loop goes on to the next collection
\* while the traversal is still running.
CallStreamCollections_notAwaited ==
    /\ pc = "loop"
    /\ UNCHANGED unitVars
    /\ i <= Len(remainingCollections)
    /\ log' = Append(log, [status |-> "running", name |-> remainingCollections[i]])
    /\ i' = i + 1
    /\ UNCHANGED <<stateFile, options, continueOnError, pc, savedState,
                   collectionsToExport, completedCollections, resuming,
                   remainingCollections, currentState, documentsByPath, t, written,
                   found, crash>>

\* main, lines 185-205: the loop takes the next collection and calls
\* streamCollections, whose queue starts with the root collection.
CallStreamCollections ==
    /\ pc = "loop"
    /\ UNCHANGED unitVars
    /\ i <= Len(remainingCollections)
    /\ log' = Append(log, [status |-> "running", name |-> remainingCollections[i]])
    /\ pc' = "stream"
    /\ UNCHANGED <<stateFile, options, continueOnError, savedState, collectionsToExport,
                   completedCollections, resuming, remainingCollections, i,
                   currentState, documentsByPath, t, written, found, crash>>

\* main, lines 253-279: the loop is over; the summary is printed and the
\* state cleared.
FinalSummary ==
    /\ pc = "loop"
    /\ UNCHANGED unitVars
    /\ i > Len(remainingCollections)
    /\ stateFile' = clearState(stateFile)
    /\ pc' = "finished"
    /\ UNCHANGED <<options, continueOnError, savedState, collectionsToExport,
                   completedCollections, resuming, remainingCollections, i,
                   currentState, documentsByPath, t, written, log, found, found, crash>>

\* Mutant: the catch block always rethrows.
rethrows_always(coe) == TRUE

\* Mutant: the catch block never rethrows.
rethrows_never(coe) == FALSE

\* main, line 246: does the catch block rethrow?
rethrows(coe) == ~coe

\* Mutant: the catch block marks the collection completed as well.
markFailed_completed(state, name) ==
    [state EXCEPT !.lastError = name, !.completed = Append(@, name)]

\* main, lines 242-243: what the catch block records in the checkpoint.
markFailed(state, name) == [state EXCEPT !.lastError = name]

\* main, lines 235-236: what the success path records in the checkpoint.
markCompleted(state, name) == [state EXCEPT !.completed = Append(@, name)]

\* main, lines 239-250 (and 281-288 when it rethrows): the catch block of the loop.
catchError ==
    /\ currentState' = markFailed(currentState, remainingCollections[i])
    /\ stateFile' = saveState(currentState')
    /\ log' = SetStatus("error")
    /\ documentsByPath' = <<>>
    /\ t' = 1
    /\ IF rethrows(continueOnError)
       THEN pc' = "exit1" /\ i' = i
       ELSE pc' = "loop" /\ i' = i + 1

\* streamCollections, lines 120-164: the queue drains; every logical table of
\* the subtree has its documents.
QueueDrained ==
    /\ pc = "stream"
    /\ UNCHANGED unitVars
    /\ documentsByPath' = TablesOf[remainingCollections[i]]
    /\ t' = 1
    /\ pc' = "flush"
    /\ UNCHANGED <<stateFile, options, continueOnError, savedState, collectionsToExport,
                   completedCollections, resuming, remainingCollections, i,
                   currentState, written, log, found, crash>>

\* streamCollections, lines 130 and 154: a page fetch or a listing of child
\* collections fails; nothing catches it before main.
StoreFails ==
    /\ pc = "stream"
    /\ UNCHANGED unitVars
    /\ catchError
    /\ written' = {}
    /\ UNCHANGED <<options, continueOnError, savedState, collectionsToExport,
                   completedCollections, resuming, remainingCollections, found, crash>>

\* streamCollections, line 184: does the catch block of the flush rethrow?
flushRethrows(coe) == ~coe

\* streamCollections, lines 167-181: one table is written by every selected sink.
FlushTable ==
    /\ pc = "flush"
    /\ UNCHANGED unitVars
    /\ t <= Len(documentsByPath)
    /\ written' = written \cup
                    {<<documentsByPath[t], s>> : s \in SinksOf(options.format)}
    /\ t' = t + 1
    /\ UNCHANGED <<stateFile, options, continueOnError, pc, savedState,
                   collectionsToExport, completedCollections, resuming,
                   remainingCollections, i, currentState, documentsByPath, log, found, crash>>

\* streamCollections, lines 172-187: sink s throws while writing table t.  The
\* JSON sink runs first, so a failing SQL sink leaves the JSON artifact written.
SinkFails(s) ==
    /\ pc = "flush"
    /\ UNCHANGED unitVars
    /\ t <= Len(documentsByPath)
    /\ s \in SinksOf(options.format)
    /\ IF flushRethrows(continueOnError)
       THEN /\ catchError
            /\ written' = {}
       ELSE /\ t' = t + 1
            /\ written' = IF s = "sql" /\ "json" \in SinksOf(options.format)
                          THEN written \cup {<<documentsByPath[t], "json">>}
                          ELSE written
            /\ UNCHANGED <<stateFile, pc, i, currentState, log, documentsByPath>>
    /\ UNCHANGED <<options, continueOnError, savedState, collectionsToExport,
                   completedCollections, resuming, remainingCollections, found, crash>>

SinkWriteFails == \E s \in {"json", "sql"} : SinkFails(s)

\* streamCollections line 190 and main lines 207-237: the call returns and
\* the collection is marked completed.
CollectionCompleted ==
    /\ pc = "flush"
    /\ UNCHANGED unitVars
    /\ t > Len(documentsByPath)
    /\ currentState' = markCompleted(currentState, remainingCollections[i])
    /\ stateFile' = saveState(currentState')
    /\ log' = SetStatus("ok")
    /\ i' = i + 1
    /\ pc' = "loop"
    /\ documentsByPath' = <<>>
    /\ t' = 1
    /\ written' = {}
    /\ UNCHANGED <<options, continueOnError, savedState, collectionsToExport,
                   completedCollections, resuming, remainingCollections, found, crash>>

NamesWith(status) == {log[k].name : k \in {j \in DOMAIN log : log[j].status = status}}

Traversed == [k \in DOMAIN log |-> log[k].name]

\* The process is killed (power loss, SIGKILL, Ctrl-C) between two steps.
Crash ==
    /\ pc \in {"loop", "stream", "flush"}
    /\ UNCHANGED unitVars
    /\ pc' = "crashed"
    /\ crash' = [format |-> options.format,
                 crashed |-> TRUE,
                 collections |-> options.collections,
                 persisted |-> IF stateFile.exists
                                  /\ (resuming \/ \E k \in DOMAIN log : log[k].status # "running")
                               THEN RangeOf(stateFile.completed) ELSE {},
                 inflight |-> NamesWith("running"),
                 failed |-> NamesWith("error"),
                 traversed |-> RangeOf(Traversed)]
    /\ UNCHANGED <<stateFile, options, continueOnError, savedState, collectionsToExport,
                   completedCollections, resuming, remainingCollections, i,
                   currentState, documentsByPath, t, written, log, found>>

\* The process is gone (main returned, process.exit(1) at line 287, or the
\* kill): its memory is lost, the state file stays.
ProcessExit ==
    /\ pc \in {"finished", "exit1", "crashed"}
    /\ UNCHANGED unitVars
    /\ pc' = "idle"
    /\ crash' = IF pc = "crashed" THEN crash ELSE NoCrash
    /\ options' = [format |-> "both", collections |-> <<>>, resume |-> FALSE,
                   reset |-> FALSE]
    /\ continueOnError' = TRUE
    /\ savedState' = NoFile
    /\ collectionsToExport' = <<>>
    /\ completedCollections' = <<>>
    /\ resuming' = FALSE
    /\ remainingCollections' = <<>>
    /\ i' = 1
    /\ currentState' = NoFile
    /\ documentsByPath' = <<>>
    /\ t' = 1
    /\ written' = {}
    /\ log' = <<>>
    /\ found' = "none"
    /\ UNCHANGED stateFile

Next ==
    \/ StartRun
    \/ ProcessExit
    \/ CallStreamCollections
    \/ QueueDrained
    \/ StoreFails
    \/ FlushTable
    \/ SinkWriteFails
    \/ CollectionCompleted
    \/ FinalSummary
    \/ Crash

Spec == Init /\ [][Next]_vars

----
\* Vocabulary of the properties.

\* The run is between its start and its end.
RunActive == pc \in {"loop", "stream", "flush"}

\* The --collections list the run was given (the store's roots when left out).
Given == IF Len(options.collections) = 0 THEN RootCollections ELSE options.collections

Count(c, s) == Cardinality({k \in DOMAIN s : s[k] = c})

Finished == {k \in DOMAIN log : log[k].status # "running"}

\* The names of the traversals that returned normally, in order.
OkNames == LET ok == SelectSeq(log, LAMBDA e : e.status = "ok")
           IN  [k \in DOMAIN ok |-> ok[k].name]

LastFinished == log[CHOOSE k \in Finished : \A j \in Finished : j <= k]

Errors == {k \in DOMAIN log : log[k].status = "error"}

LastError == log[CHOOSE k \in Errors : \A j \in Errors : j <= k]

\* Every artifact streamCollections owes for root collection c.
Expected(c) == {<<TablesOf[c][k], s>> : k \in DOMAIN TablesOf[c], s \in SinksOf(options.format)}

\* This run restarts a crashed run with --resume and the same format and list.
Restarted == crash.crashed /\ pc \in {"loop", "stream", "flush", "finished", "exit1"}

----
C2_CompletedOnlyIfAllWritten ==
    [][(pc = "flush" /\ currentState'.completed # currentState.completed)
          => Expected(remainingCollections[i]) \subseteq written]_vars

\* C3: a run that ends with a root collection failed and absent from completed
\* leaves the checkpoint on disk.
C3_FailedRunKeepsCheckpoint ==
    (/\ pc = "finished"
     /\ \E k \in Errors : log[k].name \notin RangeOf(currentState.completed))
        => stateFile.exists

C5_SavedBeforeNext ==
    (pc \in {"loop", "stream", "flush", "exit1"} /\ Finished # {}) =>
        /\ stateFile.exists
        /\ stateFile = currentState
        /\ LastFinished.status = "ok" =>
              /\ stateFile.completed # <<>>
              /\ stateFile.completed[Len(stateFile.completed)] = LastFinished.name
        /\ LastFinished.status = "error" => stateFile.lastError = LastFinished.name

C5_Witness ==
    /\ pc = "stream"
    /\ Len(log) = 2
    /\ log[1].status = "ok"

\* C6: a resume request that finds a state file of another format or another
\* set of collections reuses nothing of it: the completed set starts empty and
\* every requested root collection is traversed.
C6_MismatchStartsFresh ==
    (/\ options.resume /\ savedState.exists
     /\ \/ savedState.format # options.format
        \/ RangeOf(savedState.requestedCollections) # RangeOf(Given))
        => /\ ~resuming
           /\ completedCollections = <<>>
           /\ remainingCollections = collectionsToExport
           /\ currentState.completed = OkNames
           /\ pc = "finished" => \A c \in Names : Count(c, Traversed) = Count(c, Given)

C6_Witness ==
    /\ options.resume /\ savedState.exists
    /\ savedState.format # options.format
    /\ savedState.completed # <<>>
    /\ pc = "finished"
    /\ Traversed # <<>>

\* C7: while a fresh run processes its first root collection, no checkpoint
\* of an earlier run is on disk.
C7_FreshRunClearsCheckpoint ==
    (pc \in {"stream", "flush"} /\ ~resuming /\ Len(log) = 1) => ~stateFile.exists

\* C8: with --reset nothing is loaded even with --resume, the state file is
\* gone until the run itself saves one, and every requested root collection is
\* traversed.
C8_ResetDeletesFirst ==
    options.reset =>
        /\ ~savedState.exists
        /\ ~resuming
        /\ completedCollections = <<>>
        /\ remainingCollections = Given
        /\ (RunActive /\ Finished = {}) => ~stateFile.exists
        /\ pc = "finished" => Traversed = Given

C8_Witness ==
    /\ options.reset /\ options.resume
    /\ found = "matching"
    /\ pc = "finished"
    /\ Traversed # <<>>

C10_ContinueOnError ==
    (continueOnError /\ Errors # {}) =>
        /\ pc # "exit1"
        /\ RunActive => (stateFile.exists /\ stateFile.lastError = LastError.name)
        /\ pc = "finished" => Traversed = remainingCollections

C10_Witness ==
    /\ continueOnError /\ pc = "finished"
    /\ Len(log) = 2
    /\ log[1].status = "error"
    /\ log[2].status = "ok"

\* C11: without continueOnError the first failure ends the run: the checkpoint
\* naming the failed collection in lastError is on disk and stays there, the
\* failed traversal is the last one of the run, and the process exits with 1.
C11_FirstFailureEndsRun ==
    (~continueOnError /\ Errors # {}) =>
        /\ pc = "exit1"
        /\ Errors = {Len(log)}
        /\ Len(log) = i
        /\ stateFile.exists
        /\ stateFile.lastError = log[Len(log)].name

C11_Witness ==
    /\ ~continueOnError /\ pc = "exit1"
    /\ i < Len(remainingCollections)
    /\ stateFile.lastError = remainingCollections[i]
    /\ remainingCollections[i + 1] \notin RangeOf(Traversed)

\* C12: root collections are processed one at a time: only the last traversal
\* started can be running, it is the one of the collection the loop is at, every
\* artifact written since it started belongs to that collection, and the
\* traversals before it are over.
C12_OneRootAtATime ==
    /\ \A k \in DOMAIN log :
          log[k].status = "running" =>
              k = Len(log) /\ pc \in {"stream", "flush", "crashed"}
    /\ pc \in {"stream", "flush"} =>
          /\ Len(log) = i
          /\ log[i] = [status |-> "running", name |-> remainingCollections[i]]
          /\ written \subseteq Expected(remainingCollections[i])
    /\ pc = "loop" => written = {} /\ documentsByPath = <<>>

C12_Witness ==
    /\ pc = "flush" /\ i = 2
    /\ log[1].status = "ok"
    /\ written # {}

----
\* Strings.  A string is the sequence of its characters: "a/1" is <<"a", "/", "1">>.

\* String.prototype.split with a one-character separator.
RECURSIVE split(_, _)
split(str, sep) ==
    IF \A k \in DOMAIN str : str[k] # sep THEN <<str>>
    ELSE LET k == CHOOSE k \in DOMAIN str :
                      str[k] = sep /\ \A j \in 1..(k - 1) : str[j] # sep
         IN  <<SubSeq(str, 1, k - 1)>> \o split(SubSeq(str, k + 1, Len(str)), sep)

\* Array.prototype.join.
RECURSIVE join(_, _)
join(parts, sep) ==
    IF parts = <<>> THEN <<>>
    ELSE IF Len(parts) = 1 THEN parts[1]
    ELSE parts[1] \o sep \o join(Tail(parts), sep)

\* Mutant: the filter keeps every part, document ids included.
collectionParts_all(parts) == parts

\* parts.filter((_, index) => index % 2 === 0): JavaScript counts from 0, so
\* these are the parts at the odd positions here.
collectionParts(parts) == [k \in 1..((Len(parts) + 1) \div 2) |-> parts[2 * k - 1]]

normalizeCollectionPath(path) == join(collectionParts(split(path, "/")), <<"_", "_">>)

----
\* streamCollections in detail: the traversal of one root collection and the
\* flush that follows it.

\* Largest number of documents in one collection of the store.
MaxDocs == 2

\* The root collection walked, and the names a sub-collection can have, in the
\* order listCollections reports them.
Root == <<"u">>

ChildNames == << <<"i">>, <<"o">>, <<"p">> >>

\* Document ids of the root collection, in key order.
Ids == << <<"1">>, <<"2">>, <<"3">>, <<"4">> >>

\* Document ids of u/{doc}/o, in key order.
OrderIds == << <<"6">>, <<"7">>, <<"8">>, <<"9">> >>

Slash(path, name) == path \o <<"/">> \o name

\* The shapes of the subtree: `users` documents in u; the documents in `owners`
\* each have a sub-collection o of `orders` documents (0: the store lists o but
\* returns no document of it); with `items` the first document of every o has
\* a sub-collection i of one document; with `profile` document 1 of u has a
\* sub-collection p of one document.
Shapes ==
    {sh \in [users : 0..MaxDocs, owners : SUBSET (1..MaxDocs), orders : 0..MaxDocs,
             items : BOOLEAN, profile : BOOLEAN] :
        /\ sh.owners \subseteq 1..sh.users
        /\ sh.items => sh.orders > 0 /\ sh.owners # {}
        /\ sh.profile => sh.users > 0
        /\ sh.owners = {} => sh.orders = 0}

StoreOf(sh) ==
    LET oPath(k) == Slash(Slash(Root, Ids[k]), <<"o">>)
        iPath(k) == Slash(Slash(oPath(k), OrderIds[1]), <<"i">>)
        pPath == Slash(Slash(Root, Ids[1]), <<"p">>)
        oPaths == {oPath(k) : k \in sh.owners}
        iPaths == IF sh.items THEN {iPath(k) : k \in sh.owners} ELSE {}
        pPaths == IF sh.profile THEN {pPath} ELSE {}
    IN  [path \in {Root} \cup oPaths \cup iPaths \cup pPaths |->
            IF path = Root THEN SubSeq(Ids, 1, sh.users)
            ELSE IF path \in oPaths THEN SubSeq(OrderIds, 1, sh.orders)
            ELSE <<(<<"5">>)>>]

\* collectDocuments, lines 39-81: every document of the collection, in key
\* order (the pages are the subject of PageSpec).  The documents of the subtree
\* have no fields.
collectDocuments(path) ==
    IF path \in DOMAIN store
    THEN [k \in DOMAIN store[path] |->
              [path |-> Slash(path, store[path][k]), id |-> store[path][k], data |-> <<>>]]
    ELSE <<>>

\* getSubcollections, lines 28-31.
getSubcollections(docPath) ==
    SelectSeq(ChildNames, LAMBDA name : Slash(docPath, name) \in DOMAIN store)

Keys(map) == {map[k].path : k \in DOMAIN map}

\* Mutant: the documents of a node go in front of those already in the table.
push_unshift(old, documents) == documents \o old

\* Array.prototype.push(...documents), line 145.
push(old, documents) == old \o documents

\* Mutant: a table counts as a sub-collection type whatever its depth.
countsAsSubcollection_anyDepth(map, normalizedPath, depth) ==
    normalizedPath \notin Keys(map)

\* Lines 137-141: the table is new and its node is below the root.
countsAsSubcollection(map, normalizedPath, depth) ==
    normalizedPath \notin Keys(map) /\ depth > 0

\* Lines 136-147: the documents of a node are added to the table of its
\* normalized path, which is created at its first document.
group(map, normalizedPath, documents) ==
    LET withKey == IF normalizedPath \in Keys(map) THEN map
                   ELSE Append(map, [path |-> normalizedPath, documents |-> <<>>])
    IN  [k \in DOMAIN withKey |->
            IF withKey[k].path = normalizedPath
            THEN [withKey[k] EXCEPT !.documents = push(@, documents)]
            ELSE withKey[k]]

StreamInit ==
    /\ \E fmt \in Formats :
          options = [format |-> fmt, collections |-> <<>>, resume |-> FALSE,
                     reset |-> FALSE]
    /\ continueOnError \in BOOLEAN
    /\ DriverRest
    /\ FnIdle
    /\ PageIdle
    /\ \E sh \in Shapes : store = StoreOf(sh)
    /\ queue = <<[path |-> Root, depth |-> 0]>>
    /\ processedPaths = {}
    /\ current = NoNode
    /\ byPath = <<>>
    /\ results = [totalDocs |-> 0, subcollections |-> 0, jsonFiles |-> 0, sqlFiles |-> 0]
    /\ flushIndex = 1
    /\ spc = "queue"
    /\ sinkCalls = <<>>
    /\ dequeued = <<>>

\* Lines 120-147: one node leaves the queue, its documents are read and added
\* to the table of its normalized path.  (node, documents and normalizedPath
\* are the constants of the loop body: each is bound to its value once.)
Dequeue ==
    /\ spc = "queue"
    /\ queue # <<>>
    /\ \E node \in {Head(queue)} :
       \E documents \in {collectDocuments(node.path)},
          normalizedPath \in {normalizeCollectionPath(node.path)} :
           /\ queue' = Tail(queue)
           /\ dequeued' = Append(dequeued, [path |-> node.path, depth |-> node.depth,
                                            collected |-> node.path \notin processedPaths])
           /\ IF node.path \in processedPaths
              THEN UNCHANGED <<processedPaths, current, byPath, results, spc>>
              ELSE /\ processedPaths' = processedPaths \cup {node.path}
                   /\ IF Len(documents) > 0
                      THEN /\ results' =
                                [results EXCEPT
                                    !.totalDocs = @ + Len(documents),
                                    !.subcollections =
                                        IF countsAsSubcollection(byPath, normalizedPath,
                                                                 node.depth)
                                        THEN @ + 1 ELSE @]
                           /\ byPath' = group(byPath, normalizedPath, documents)
                           /\ current' = [path |-> node.path, depth |-> node.depth,
                                          documents |-> documents, d |-> 1]
                           /\ spc' = "children"
                      ELSE UNCHANGED <<current, byPath, results, spc>>
    /\ UNCHANGED <<store, flushIndex, sinkCalls, driverVars, fnVars, pageVars>>

\* Line 130: a page fetch of collectDocuments fails; the error leaves
\* streamCollections, which has no handler around the traversal.
FetchFails ==
    /\ spc = "queue"
    /\ queue # <<>>
    /\ Head(queue).path \notin processedPaths
    /\ queue' = Tail(queue)
    /\ dequeued' = Append(dequeued, [path |-> Head(queue).path, depth |-> Head(queue).depth,
                                     collected |-> TRUE])
    /\ processedPaths' = processedPaths \cup {Head(queue).path}
    /\ spc' = "storeFailed"
    /\ UNCHANGED <<store, current, byPath, results, flushIndex, sinkCalls, driverVars,
                   fnVars, pageVars>>

\* Mutant: a child collection is queued at the depth of its parent.
childNodes_sameDepth(docPath, depth, processed) ==
    LET fresh == SelectSeq(getSubcollections(docPath),
                           LAMBDA name : Slash(docPath, name) \notin processed)
    IN  [k \in DOMAIN fresh |-> [path |-> Slash(docPath, fresh[k]), depth |-> depth]]

\* Lines 154-161: the nodes queued for the sub-collections of one document.
childNodes(docPath, depth, processed) ==
    LET fresh == SelectSeq(getSubcollections(docPath),
                           LAMBDA name : Slash(docPath, name) \notin processed)
    IN  [k \in DOMAIN fresh |-> [path |-> Slash(docPath, fresh[k]), depth |-> depth + 1]]

\* Mutant: the nodes go to the front of the queue.
enqueue_atFront(nodes, added) == added \o nodes

\* queue.push, line 159: the queue is first in, first out.
enqueue(nodes, added) == nodes \o added

\* Lines 150-162: the sub-collections of one document of the node are listed
\* and queued; after the last document the loop goes back to the queue.
CheckSubcollections ==
    /\ spc = "children"
    /\ queue' = enqueue(queue, childNodes(current.documents[current.d].path, current.depth,
                                          processedPaths))
    /\ IF current.d = Len(current.documents)
       THEN current' = NoNode /\ spc' = "queue"
       ELSE current' = [current EXCEPT !.d = @ + 1] /\ UNCHANGED spc
    /\ UNCHANGED <<store, dequeued, processedPaths, byPath, results, flushIndex, sinkCalls,
                   driverVars, fnVars, pageVars>>

\* Mutant: the table of the node is saved before the error leaves.
ListFails_savingFirst ==
    /\ spc = "children"
    /\ spc' = "storeFailed"
    /\ sinkCalls' = sinkCalls \o
            [k \in 1..1 |-> [path |-> byPath[Len(byPath)].path,
                             documents |-> byPath[Len(byPath)].documents,
                             sink |-> "json", threw |-> FALSE]]
    /\ UNCHANGED <<store, dequeued, queue, processedPaths, current, byPath, results,
                   flushIndex, driverVars, fnVars, pageVars>>

\* Line 154: listing the sub-collections of a document fails; the error leaves
\* streamCollections.
ListFails ==
    /\ spc = "children"
    /\ spc' = "storeFailed"
    /\ UNCHANGED <<store, dequeued, queue, processedPaths, current, byPath, results,
                   flushIndex, sinkCalls, driverVars, fnVars, pageVars>>

\* Lines 120 and 166-167: the queue is empty, the flush loop starts.
StartFlush ==
    /\ spc = "queue"
    /\ queue = <<>>
    /\ spc' = "flush"
    /\ flushIndex' = 1
    /\ UNCHANGED <<store, dequeued, queue, processedPaths, current, byPath, results, sinkCalls,
                   driverVars, fnVars, pageVars>>

\* Lines 172-181: the sink calls made for one table when sink `failing` throws
\* ("none": no sink throws).  The JSON sink is called first; a sink that throws
\* ends the try block.
saveCalls(entry, format, failing) ==
    LET jsonCall == IF "json" \in SinksOf(format)
                    THEN <<[path |-> entry.path, documents |-> entry.documents,
                            sink |-> "json", threw |-> failing = "json"]>>
                    ELSE <<>>
        sqlCall == IF "sql" \in SinksOf(format) /\ ~("json" \in SinksOf(format) /\ failing = "json")
                   THEN <<[path |-> entry.path, documents |-> entry.documents,
                           sink |-> "sql", threw |-> failing = "sql"]>>
                   ELSE <<>>
    IN  jsonCall \o sqlCall

Succeeded(calls, sink) ==
    Cardinality({k \in DOMAIN calls : calls[k].sink = sink /\ ~calls[k].threw})

\* Lines 167-188: one iteration of the flush loop.
Save(failing) ==
    /\ spc = "flush"
    /\ flushIndex <= Len(byPath)
    /\ LET entry == byPath[flushIndex]
           calls == saveCalls(entry, options.format, failing)
       IN  IF Len(entry.documents) = 0
           THEN /\ failing = "none"
                /\ flushIndex' = flushIndex + 1
                /\ UNCHANGED <<sinkCalls, results, spc>>
           ELSE /\ sinkCalls' = sinkCalls \o calls
                /\ results' = [results EXCEPT
                                  !.jsonFiles = @ + Succeeded(calls, "json"),
                                  !.sqlFiles = @ + Succeeded(calls, "sql")]
                /\ IF failing # "none" /\ flushRethrows(continueOnError)
                   THEN spc' = "threw" /\ UNCHANGED flushIndex
                   ELSE flushIndex' = flushIndex + 1 /\ UNCHANGED spc
    /\ UNCHANGED <<store, dequeued, queue, processedPaths, current, byPath, driverVars, fnVars, pageVars>>

SaveTable == Save("none")

SaveTableFails == \E s \in SinksOf(options.format) : Save(s)

\* Line 190.
Return ==
    /\ spc = "flush"
    /\ flushIndex > Len(byPath)
    /\ spc' = "returned"
    /\ UNCHANGED <<store, dequeued, queue, processedPaths, current, byPath, results, flushIndex,
                   sinkCalls, driverVars, fnVars, pageVars>>

\* The steps of a call in which every store call returns.
StoreReturnsNext ==
    \/ Dequeue
    \/ CheckSubcollections
    \/ StartFlush
    \/ SaveTable
    \/ SaveTableFails
    \/ Return

StreamNext ==
    \/ StoreReturnsNext
    \/ FetchFails
    \/ ListFails

StreamSpec == StreamInit /\ [][StreamNext]_vars

\* A call in which every store call returns: the event loop runs the
\* continuation of every await that resolves, and the synchronous code between
\* two awaits runs to its end.
StoreReturnsSpec == StreamInit /\ [][StoreReturnsNext]_vars /\ WF_vars(StoreReturnsNext)

\* Every document of the store, with the normalized path of its collection.
AllDocuments ==
    UNION {{[path |-> Slash(cp, store[cp][k]), table |-> normalizeCollectionPath(cp)] :
                k \in DOMAIN store[cp]} : cp \in DOMAIN store}

\* The paths of the documents of a logical table.
DocumentsOf(table) == {doc.path : doc \in {x \in AllDocuments : x.table = table}}

\* The logical tables that receive at least one record.
Tables == {doc.table : doc \in AllDocuments}

\* The sink calls for a table that wrote its artifact.
Writes(table, sink) ==
    {k \in DOMAIN sinkCalls : /\ sinkCalls[k].path = table
                              /\ sinkCalls[k].sink = sink
                              /\ ~sinkCalls[k].threw}

\* C13: no sink is called while the work queue is non-empty; every sink call
\* is for a selected format and carries the complete record set of its table,
\* no table is handed to the same sink twice, and when streamCollections
\* returns every table with a record has been written once per selected format.
C13_EachTableWrittenOnce ==
    /\ sinkCalls # <<>> => queue = <<>> /\ spc \in {"flush", "returned", "threw"}
    /\ \A k \in DOMAIN sinkCalls :
          LET c == sinkCalls[k]
          IN  /\ c.sink \in SinksOf(options.format)
              /\ {c.documents[j].path : j \in DOMAIN c.documents} = DocumentsOf(c.path)
              /\ Len(c.documents) = Cardinality(DocumentsOf(c.path))
              /\ \A j \in DOMAIN sinkCalls :
                    sinkCalls[j].sink = c.sink /\ sinkCalls[j].path = c.path => j = k
    /\ spc = "returned" =>
          \A table \in Tables, sink \in SinksOf(options.format) :
              Cardinality(Writes(table, sink)) = 1

----
\* The functions of lib/collector.js, lib/transformers.js and the exporters,
\* applied to inputs drawn from bounded sets (FnSpec): one action applies one
\* function, FnReturn forgets the application.

\* Largest number of collection names in a collection path.
MaxLevels == 2

\* Collection names: the store allows underscores anywhere in a name as long as
\* the name does not both start and end with two of them.
CollectionNames == {<<"a">>, <<"b">>, <<"a", "_", "_", "b">>, <<"a", "_", "b">>}

DocIds == {<<"1">>, <<"2">>}

\* The collection paths with n collection names, each with its names.
RECURSIVE PathsOfLevel(_)
PathsOfLevel(n) ==
    IF n = 1 THEN {[path |-> c, names |-> <<c>>] : c \in CollectionNames}
    ELSE {[path |-> Slash(Slash(parent.path, d), c), names |-> Append(parent.names, c)] :
              parent \in PathsOfLevel(n - 1), d \in DocIds, c \in CollectionNames}

CollectionPaths == UNION {PathsOfLevel(n) : n \in 1..MaxLevels}

FnInit ==
    /\ options = [format |-> "both", collections |-> <<>>, resume |-> FALSE, reset |-> FALSE]
    /\ continueOnError = TRUE
    /\ DriverRest
    /\ StreamIdle
    /\ FnIdle
    /\ PageIdle

FnReturn ==
    /\ call # NoCall
    /\ call' = NoCall
    /\ ret' = NoRet
    /\ UNCHANGED <<driverVars, streamVars, pageVars>>

\* normalizeCollectionPath applied to two collection paths.
ApplyNormalizeCollectionPath ==
    /\ call = NoCall
    /\ \E p1 \in CollectionPaths, p2 \in CollectionPaths :
          /\ call' = [op |-> "normalizeCollectionPath", paths |-> <<p1.path, p2.path>>,
                      nameLists |-> <<p1.names, p2.names>>]
          /\ ret' = [normalized |-> <<normalizeCollectionPath(p1.path),
                                      normalizeCollectionPath(p2.path)>>]
    /\ UNCHANGED <<driverVars, streamVars, pageVars>>

\* str.replace(/[class]/g, rep): every character of the class becomes rep.
replaceEach(str, class, rep) ==
    [k \in DOMAIN str |-> IF str[k] \in class THEN rep ELSE str[k]]

\* str.replace(/[class]+/g, rep): every maximal run of characters of the class
\* becomes one rep.
RECURSIVE replaceRuns(_, _, _)
replaceRuns(str, class, rep) ==
    IF str = <<>> THEN <<>>
    ELSE IF Head(str) \notin class THEN <<Head(str)>> \o replaceRuns(Tail(str), class, rep)
    ELSE IF Len(str) > 1 /\ str[2] \in class THEN replaceRuns(Tail(str), class, rep)
    ELSE <<rep>> \o replaceRuns(Tail(str), class, rep)

\* str.replace(/^_+|_+$/g, '')
RECURSIVE trimUnderscores(_)
trimUnderscores(str) ==
    IF str = <<>> THEN <<>>
    ELSE IF Head(str) = "_" THEN trimUnderscores(Tail(str))
    ELSE IF str[Len(str)] = "_" THEN trimUnderscores(SubSeq(str, 1, Len(str) - 1))
    ELSE str

InvalidFileChars == {"<", ">", ":", "\"", "/", "\\", "|", "?", "*"}

Whitespace == {" ", "\t", "\n"}

\* sanitizeFileName cuts the name to this many characters.
FileNameLimit == 200

\* sanitizeFileName, lines 292-311.
sanitizeFileName(collectionName) ==
    LET replaced == replaceRuns(replaceEach(collectionName, InvalidFileChars, "_"),
                                Whitespace, "_")
        collapsed == replaceRuns(replaced, {"_"}, "_")
        trimmed == trimUnderscores(collapsed)
        cut == IF Len(trimmed) > FileNameLimit THEN SubSeq(trimmed, 1, FileNameLimit)
               ELSE trimmed
    IN  IF cut = <<>> THEN <<"c", "o", "l", "l", "e", "c", "t", "i", "o", "n">>
        ELSE cut

\* exportToJson, line 47, and exportToSql, line 211.
jsonFilename(collectionName) == sanitizeFileName(collectionName) \o <<".", "j", "s", "o", "n">>

sqlFilename(collectionName) == sanitizeFileName(collectionName) \o <<".", "s", "q", "l">>

\* The names of the files the two sinks write for the table of a collection path.
ApplyFilename ==
    /\ call = NoCall
    /\ \E p \in CollectionPaths :
          /\ call' = [path |-> p.path, op |-> "filename", names |-> p.names]
          /\ ret' = [json |-> jsonFilename(normalizeCollectionPath(p.path)),
                     sql |-> sqlFilename(normalizeCollectionPath(p.path))]
    /\ UNCHANGED <<driverVars, streamVars, pageVars>>

\* The files the sinks write for the tables of two collection paths met in
\* one run.
ApplyFilenames ==
    /\ call = NoCall
    /\ \E p1 \in CollectionPaths, p2 \in CollectionPaths :
          LET table1 == normalizeCollectionPath(p1.path)
              table2 == normalizeCollectionPath(p2.path)
          IN  /\ call' = [op |-> "filenames", paths |-> <<p1.path, p2.path>>]
              /\ ret' = [tables |-> <<table1, table2>>,
                         jsonNames |-> <<jsonFilename(table1), jsonFilename(table2)>>,
                         sqlNames |-> <<sqlFilename(table1), sqlFilename(table2)>>]
    /\ UNCHANGED <<driverVars, streamVars, pageVars>>

----
\* Firestore values.  A string value is its length and, where it matters, its
\* text; a number is an offset from 0 or from an end of the 32-bit range, so
\* that the values on both sides of the range are at hand.

Str(text) == [text |-> text, kind |-> "string", length |-> Len(text)]

\* A string of n characters whose text does not matter.
Text(n) == [text |-> <<>>, kind |-> "string", length |-> n]

Null == [kind |-> "null"]

\* base "max32" is 2147483647, base "min32" is -2147483648, base "zero" is 0;
\* the number is base + off.
Integer(base, off) ==
    [kind |-> "number", base |-> base, off |-> off, finite |-> TRUE, integer |-> TRUE]

Numbers ==
    {Integer("zero", 0), Integer("zero", 1), Integer("zero", 5),
     Integer("max32", 0), Integer("max32", 1), Integer("min32", 0), Integer("min32", -1),
     \* 0.5 and 2147483648.5
     [kind |-> "number", base |-> "zero", off |-> 0, finite |-> TRUE, integer |-> FALSE],
     [kind |-> "number", base |-> "max32", off |-> 1, finite |-> TRUE, integer |-> FALSE],
     \* NaN, Infinity
     [kind |-> "number", base |-> "zero", off |-> 0, finite |-> FALSE, integer |-> FALSE]}

StringLengths == {1, 50, 51, 255, 256, 1000, 1001, 4000, 4001}

\* The length of Date.prototype.toISOString(): 2024-01-31T12:00:00.000Z
IsoLength == 24

Values ==
    {Null, [kind |-> "boolean", b |-> TRUE], [kind |-> "boolean", b |-> FALSE],
     [kind |-> "timestamp"], [kind |-> "geopoint", length |-> 40],
     [kind |-> "reference", length |-> 20], [kind |-> "reference", length |-> 600],
     [kind |-> "array", length |-> 10], [kind |-> "object", length |-> 10],
     [kind |-> "bytes", length |-> 8]}
        \cup Numbers \cup {Text(n) : n \in StringLengths}

\* Mutant: the two ends of the range are left out.
inIntRange_exclusive(value) ==
    /\ ~(value.base = "min32" /\ value.off <= 0)
    /\ ~(value.base = "max32" /\ value.off >= 0)

\* value >= -2147483648 && value <= 2147483647, line 146
inIntRange(value) ==
    /\ ~(value.base = "min32" /\ value.off < 0)
    /\ ~(value.base = "max32" /\ value.off > 0)

\* transformValue, lines 57-169.
transformValue(value) ==
    CASE value.kind = "null" -> [value |-> Null, sqlType |-> "NVARCHAR(MAX)"]
      [] value.kind = "bytes" -> [value |-> Text(value.length), sqlType |-> "NVARCHAR(MAX)"]
      [] value.kind = "timestamp" -> [value |-> Text(IsoLength), sqlType |-> "DATETIME2"]
      [] value.kind = "geopoint" ->
            [value |-> [kind |-> "object", length |-> value.length],
             sqlType |-> "NVARCHAR(100)"]
      [] value.kind = "reference" -> [value |-> Text(value.length), sqlType |-> "NVARCHAR(500)"]
      [] value.kind \in {"array", "object"} ->
            [value |-> Text(value.length), sqlType |-> "NVARCHAR(MAX)"]
      [] value.kind = "boolean" ->
            [value |-> IF value.b THEN Integer("zero", 1) ELSE Integer("zero", 0),
             sqlType |-> "BIT"]
      [] value.kind = "number" ->
            IF ~value.finite THEN [value |-> Null, sqlType |-> "FLOAT"]
            ELSE IF value.integer
                 THEN IF inIntRange(value) THEN [value |-> value, sqlType |-> "INT"]
                      ELSE [value |-> value, sqlType |-> "BIGINT"]
                 ELSE [value |-> value, sqlType |-> "FLOAT"]
      [] value.kind = "string" ->
            IF value.length <= 50 THEN [value |-> value, sqlType |-> "NVARCHAR(50)"]
            ELSE IF value.length <= 255 THEN [value |-> value, sqlType |-> "NVARCHAR(255)"]
            ELSE IF value.length <= 1000 THEN [value |-> value, sqlType |-> "NVARCHAR(1000)"]
            ELSE IF value.length <= 4000 THEN [value |-> value, sqlType |-> "NVARCHAR(4000)"]
            ELSE [value |-> value, sqlType |-> "NVARCHAR(MAX)"]

typeHierarchy ==
    <<"BIT", "INT", "BIGINT", "FLOAT", "NVARCHAR(50)", "NVARCHAR(100)", "NVARCHAR(255)",
      "NVARCHAR(500)", "NVARCHAR(1000)", "NVARCHAR(4000)", "NVARCHAR(MAX)", "DATETIME2">>

ColumnTypes == RangeOf(typeHierarchy)

\* Array.prototype.indexOf, counting from 0; -1 when absent.
indexOf(array, x) ==
    IF \E k \in DOMAIN array : array[k] = x
    THEN (CHOOSE k \in DOMAIN array : array[k] = x /\ \A j \in 1..(k - 1) : array[j] # x) - 1
    ELSE -1

numericTypes == {"BIT", "INT", "BIGINT", "FLOAT"}

\* Mutant: the last line returns its second argument.
getWiderType_second(type1, type2) ==
    IF type1 = type2 THEN type1
    ELSE IF type1 = "NVARCHAR(MAX)" \/ type2 = "NVARCHAR(MAX)" THEN "NVARCHAR(MAX)"
    ELSE IF (type1 \in numericTypes) # (type2 \in numericTypes) THEN "NVARCHAR(MAX)"
    ELSE type2

\* Mutant: the numeric family is not told apart from the other types.
getWiderType_noFamilies(type1, type2) ==
    IF type1 = type2 THEN type1
    ELSE IF type1 = "NVARCHAR(MAX)" \/ type2 = "NVARCHAR(MAX)" THEN "NVARCHAR(MAX)"
    ELSE IF indexOf(typeHierarchy, type1) > indexOf(typeHierarchy, type2) THEN type1
    ELSE type2

\* Mutant: NVARCHAR(MAX) is ranked by its place in the hierarchy like any type.
getWiderType_maxRanked(type1, type2) ==
    IF type1 = type2 THEN type1
    ELSE IF (type1 \in numericTypes) # (type2 \in numericTypes) THEN "NVARCHAR(MAX)"
    ELSE IF indexOf(typeHierarchy, type1) > indexOf(typeHierarchy, type2) THEN type1
    ELSE type2

\* getWiderType, lines 253-285.
getWiderType(type1, type2) ==
    IF type1 = type2 THEN type1
    ELSE IF type1 = "NVARCHAR(MAX)" \/ type2 = "NVARCHAR(MAX)" THEN "NVARCHAR(MAX)"
    ELSE IF (type1 \in numericTypes) # (type2 \in numericTypes) THEN "NVARCHAR(MAX)"
    ELSE IF indexOf(typeHierarchy, type1) > indexOf(typeHierarchy, type2) THEN type1
    ELSE type2

\* JavaScript objects with string keys: the sequence of their entries, in
\* insertion order.
has(object, key) == \E k \in DOMAIN object : object[k].key = key

get(object, key) == object[CHOOSE k \in DOMAIN object : object[k].key = key].value

\* object[key] = value
set(object, key, value) ==
    IF has(object, key)
    THEN [k \in DOMAIN object |->
             IF object[k].key = key THEN [value |-> value, key |-> key] ELSE object[k]]
    ELSE Append(object, [value |-> value, key |-> key])

keys(object) == [k \in DOMAIN object |-> object[k].key]

\* mergeSchemas, lines 237-244: the inner loop over the entries of one schema.
RECURSIVE mergeEntries(_, _)
mergeEntries(merged, schema) ==
    IF schema = <<>> THEN merged
    ELSE LET field == Head(schema).key
             sqlType == Head(schema).value
         IN  mergeEntries(IF ~has(merged, field) THEN set(merged, field, sqlType)
                          ELSE set(merged, field, getWiderType(get(merged, field), sqlType)),
                          Tail(schema))

RECURSIVE mergeInto(_, _)
mergeInto(merged, schemas) ==
    IF schemas = <<>> THEN merged
    ELSE mergeInto(mergeEntries(merged, Head(schemas)), Tail(schemas))

\* mergeSchemas, lines 233-248.
mergeSchemas(schemas) == mergeInto(<<>>, schemas)

Digits == {"0", "1", "2", "3", "4", "5", "6", "7", "8", "9"}

DigitChars == <<"0", "1", "2", "3", "4", "5", "6", "7", "8", "9">>

\* \w of a JavaScript regular expression.
WordChars ==
    {"a", "b", "c", "d", "e", "f", "g", "h", "i", "j", "k", "l", "m", "n", "o", "p", "q",
     "r", "s", "t", "u", "v", "w", "x", "y", "z", "A", "B", "C", "D", "E", "F", "G", "H",
     "I", "J", "K", "L", "M", "N", "O", "P", "Q", "R", "S", "T", "U", "V", "W", "X", "Y",
     "Z", "_"} \cup Digits

\* String(counter)
RECURSIVE decimal(_)
decimal(n) ==
    IF n < 10 THEN <<DigitChars[n + 1]>>
    ELSE decimal(n \div 10) \o <<DigitChars[(n % 10) + 1]>>

\* sanitizeFieldName, lines 176-195.
sanitizeFieldName(fieldName) ==
    LET dots == replaceEach(fieldName, {"."}, "_")
        words == [k \in DOMAIN dots |-> IF dots[k] \in WordChars THEN dots[k] ELSE "_"]
        trimmed == trimUnderscores(words)
        collapsed == replaceRuns(trimmed, {"_"}, "_")
        sanitized == IF collapsed # <<>> /\ collapsed[1] \in Digits
                     THEN <<"_">> \o collapsed ELSE collapsed
    IN  IF sanitized = <<>> THEN <<"_", "f", "i", "e", "l", "d">> ELSE sanitized

\* The column names id and _path.
ID == <<"i", "d">>

PATH == <<"_", "p", "a", "t", "h">>

\* transformDocument, lines 213-218: the while loop that looks for a free name.
RECURSIVE suffixed(_, _, _)
suffixed(transformedData, sanitizedField, counter) ==
    LET finalField == sanitizedField \o <<"_">> \o decimal(counter)
    IN  IF has(transformedData, finalField) /\ finalField # ID
        THEN suffixed(transformedData, sanitizedField, counter + 1)
        ELSE finalField

\* Mutant: the sanitized name is used whether it is taken or not.
finalFieldOf_taken(transformedData, sanitizedField) == sanitizedField

finalFieldOf(transformedData, sanitizedField) ==
    IF has(transformedData, sanitizedField) /\ sanitizedField # ID
    THEN suffixed(transformedData, sanitizedField, 1)
    ELSE sanitizedField

\* transformDocument, lines 208-223: the loop over Object.entries(data).
RECURSIVE transformEntries(_, _)
transformEntries(result, entries) ==
    IF entries = <<>> THEN result
    ELSE LET finalField == finalFieldOf(result.data, sanitizeFieldName(Head(entries).key))
             transformed == transformValue(Head(entries).value)
         IN  transformEntries([data |-> set(result.data, finalField, transformed.value),
                               schema |-> set(result.schema, finalField, transformed.sqlType)],
                              Tail(entries))

\* transformDocument, lines 203-226 (fieldMapping, which no caller reads, is
\* left out).
transformDocument(docId, data) ==
    transformEntries([data |-> <<[value |-> Str(docId), key |-> ID]>>,
                      schema |-> <<[value |-> "NVARCHAR(255)", key |-> ID]>>], data)

\* exportToSql, lines 180-187: the row and the schema of one document.
sqlRow(doc) ==
    LET transformed == transformDocument(doc.id, doc.data)
    IN  [data |-> set(transformed.data, PATH, Str(doc.path)),
         schema |-> set(transformed.schema, PATH, "NVARCHAR(500)")]

\* { ...target, ...source }
RECURSIVE spread(_, _)
spread(target, source) ==
    IF source = <<>> THEN target
    ELSE spread(set(target, Head(source).key, Head(source).value), Tail(source))

\* exportToJson, lines 29-36: the row of one document.
jsonRow(doc) ==
    spread(<<[value |-> Str(doc.id), key |-> <<"_", "i", "d">>],
             [value |-> Str(doc.path), key |-> PATH]>>,
           transformDocument(doc.id, doc.data).data)

\* Mutant: every row carries the export time as well.
exportToJson_stampedRows(collectionName, documents, now) ==
    [filename |-> jsonFilename(collectionName),
     content |-> [documents |-> [k \in DOMAIN documents |->
                                    set(jsonRow(documents[k]), <<"a", "t">>, now)],
                  collection |-> collectionName,
                  exportedAt |-> now,
                  count |-> Len(documents)]]

\* exportToJson, lines 19-57, called at time `now`: the file it writes.  The
\* content is the object handed to JSON.stringify.
exportToJson(collectionName, documents, now) ==
    [filename |-> jsonFilename(collectionName),
     content |-> [documents |-> [k \in DOMAIN documents |-> jsonRow(documents[k])],
                  collection |-> collectionName,
                  exportedAt |-> now,
                  count |-> Len(documents)]]

\* exportToSql, lines 167-221, called at time `now`: the file it writes.  The
\* content is the header comment, the CREATE TABLE statement (table name and
\* columns) and the values of the INSERT statements, in column order; the
\* quoting of names and values is left out.
exportToSql(collectionName, documents, now) ==
    LET rows == [k \in DOMAIN documents |-> sqlRow(documents[k])]
        mergedSchema == mergeSchemas([k \in DOMAIN rows |-> rows[k].schema])
        columns == keys(mergedSchema)
    IN  [filename |-> sqlFilename(collectionName),
         content |-> [table |-> sanitizeFileName(collectionName),
                      schema |-> mergedSchema,
                      collection |-> collectionName,
                      exportedAt |-> now,
                      count |-> Len(documents),
                      inserts |-> [k \in DOMAIN rows |->
                                      [c \in DOMAIN columns |->
                                          IF has(rows[k].data, columns[c])
                                          THEN get(rows[k].data, columns[c])
                                          ELSE Null]]]]

\* Largest number of fields of a document.
MaxFields == 2

\* Number of instants at which an export can run.
MaxTime == 2

FieldNames ==
    {ID, <<".", "i", "d">>, <<"a">>, <<"a", ".", "b">>, <<"a", "_", "b">>,
     <<"a", "_", "b", "_", "1">>}

FieldValues == {Str(<<"x">>), Integer("zero", 5), [kind |-> "timestamp"]}

\* Object.entries(data): up to MaxFields fields with distinct names.
Datas ==
    UNION {{data \in [1..n -> [key : FieldNames, value : FieldValues]] :
                \A j, k \in 1..n : data[j].key = data[k].key => j = k} : n \in 0..MaxFields}

Documents == {[path |-> <<"u", "/", "d">>, id |-> <<"d">>, data |-> data] : data \in Datas}

\* getWiderType applied to three column types, in the groupings the algebraic
\* laws need.
ApplyGetWiderType ==
    /\ call = NoCall
    /\ \E a \in ColumnTypes, b \in ColumnTypes, c \in ColumnTypes :
          /\ call' = [op |-> "getWiderType", types |-> <<a, b, c>>]
          /\ ret' = [aa |-> getWiderType(a, a),
                     ab |-> getWiderType(a, b),
                     ba |-> getWiderType(b, a),
                     ab_c |-> getWiderType(getWiderType(a, b), c),
                     a_bc |-> getWiderType(a, getWiderType(b, c))]
    /\ UNCHANGED <<driverVars, streamVars, pageVars>>

\* The schema of a document whose field f has the given type ("absent": the
\* document has no field f).
SchemaWith(sqlType) ==
    <<[value |-> "NVARCHAR(255)", key |-> ID]>>
        \o (IF sqlType = "absent" THEN <<>> ELSE <<[value |-> sqlType, key |-> <<"f">>]>>)
        \o <<[value |-> "NVARCHAR(500)", key |-> PATH]>>

Permutations3 == {perm \in [1..3 -> 1..3] : \A j, k \in 1..3 : perm[j] = perm[k] => j = k}

\* mergeSchemas applied to the schemas of three documents, in two orders.
ApplyMergeSchemas ==
    /\ call = NoCall
    /\ \E types \in [1..3 -> ColumnTypes \cup {"absent"}], perm \in Permutations3 :
          LET schemas == [k \in 1..3 |-> SchemaWith(types[k])]
          IN  /\ call' = [op |-> "mergeSchemas", schemas |-> schemas, perm |-> perm]
              /\ ret' = [merged |-> <<mergeSchemas(schemas),
                                      mergeSchemas([k \in 1..3 |-> schemas[perm[k]]])>>]
    /\ UNCHANGED <<driverVars, streamVars, pageVars>>

\* The column type exportToSql resolves for a field f that holds v1 in one
\* document of the table and v2 in another.
ApplyResolveColumn ==
    /\ call = NoCall
    /\ \E v1 \in Values, v2 \in Values :
          /\ call' = [op |-> "resolveColumn", values |-> <<v1, v2>>]
          /\ ret' = [sqlType |->
                     get(exportToSql(<<"u">>,
                                    <<[path |-> <<"u", "/", "1">>, id |-> <<"1">>,
                                       data |-> <<[value |-> v1, key |-> <<"f">>]>>],
                                      [path |-> <<"u", "/", "2">>, id |-> <<"2">>,
                                       data |-> <<[value |-> v2, key |-> <<"f">>]>>]>>,
                                    1).content.schema, <<"f">>)]
    /\ UNCHANGED <<driverVars, streamVars, pageVars>>

\* transformValue applied to the value of a top-level field.
ApplyTransformValue ==
    /\ call = NoCall
    /\ \E v \in Values :
          /\ call' = [op |-> "transformValue", value |-> v]
          /\ ret' = [transformed |-> transformValue(v)]
    /\ UNCHANGED <<driverVars, streamVars, pageVars>>

\* The rows the two sinks build for one document.
ApplyTransformDocument ==
    /\ call = NoCall
    /\ \E doc \in Documents :
          /\ call' = [op |-> "transformDocument", doc |-> doc]
          /\ ret' = [sqlRow |-> sqlRow(doc), jsonRow |-> jsonRow(doc)]
    /\ UNCHANGED <<driverVars, streamVars, pageVars>>

\* One table exported at two different times from the same documents.
ApplyExportTwice ==
    /\ call = NoCall
    /\ \E doc \in Documents, first \in 1..MaxTime, second \in 1..MaxTime :
          /\ first < second
          /\ call' = [op |-> "exportTwice", first |-> first, second |-> second,
                      document |-> doc]
          /\ ret' = [jsonFiles |-> <<exportToJson(<<"u">>, <<doc>>, first),
                                     exportToJson(<<"u">>, <<doc>>, second)>>,
                     sqlFiles |-> <<exportToSql(<<"u">>, <<doc>>, first),
                                    exportToSql(<<"u">>, <<doc>>, second)>>]
    /\ UNCHANGED <<driverVars, streamVars, pageVars>>

\* The JSON-to-SQL converter (src/convert.js), which reads the JSON artifacts
\* back.  A JSON value is null, a boolean, a finite number, a string (iso: it
\* starts like an ISO date and time) or an array or object.
JsonValues ==
    {Null, [kind |-> "boolean", b |-> TRUE], [kind |-> "array", length |-> 10],
     [kind |-> "object", length |-> 10]}
        \cup {n \in Numbers : n.finite}
        \cup {[kind |-> "string", length |-> n, iso |-> FALSE] : n \in StringLengths}
        \cup {[kind |-> "string", length |-> IsoLength, iso |-> TRUE]}

\* inferSqlType of convert.js, lines 97-135.
inferSqlType(value) ==
    CASE value.kind = "null" -> "NVARCHAR(MAX)"
      [] value.kind = "boolean" -> "BIT"
      [] value.kind = "number" ->
            IF value.integer
            THEN IF inIntRange(value) THEN "INT" ELSE "BIGINT"
            ELSE "FLOAT"
      [] value.kind = "string" ->
            IF value.iso THEN "DATETIME2"
            ELSE IF value.length <= 50 THEN "NVARCHAR(50)"
            ELSE IF value.length <= 255 THEN "NVARCHAR(255)"
            ELSE IF value.length <= 1000 THEN "NVARCHAR(1000)"
            ELSE IF value.length <= 4000 THEN "NVARCHAR(4000)"
            ELSE "NVARCHAR(MAX)"
      [] OTHER -> "NVARCHAR(MAX)"

\* getWiderType of convert.js, line 144.
typeOrder ==
    <<"BIT", "INT", "BIGINT", "FLOAT", "NVARCHAR(50)", "NVARCHAR(255)", "NVARCHAR(1000)",
      "NVARCHAR(4000)", "NVARCHAR(MAX)", "DATETIME2">>

\* Mutant: the last line keeps the type that comes first in typeOrder.
convert_getWiderType_narrower(type1, type2) ==
    IF type1 = type2 THEN type1
    ELSE IF type1 = "NVARCHAR(MAX)" \/ type2 = "NVARCHAR(MAX)" THEN "NVARCHAR(MAX)"
    ELSE IF (type1 \in numericTypes) # (type2 \in numericTypes) THEN "NVARCHAR(MAX)"
    ELSE IF indexOf(typeOrder, type1) > indexOf(typeOrder, type2) THEN type2
    ELSE type1

\* getWiderType of convert.js, lines 140-161.
convert_getWiderType(type1, type2) ==
    IF type1 = type2 THEN type1
    ELSE IF type1 = "NVARCHAR(MAX)" \/ type2 = "NVARCHAR(MAX)" THEN "NVARCHAR(MAX)"
    ELSE IF (type1 \in numericTypes) # (type2 \in numericTypes) THEN "NVARCHAR(MAX)"
    ELSE IF indexOf(typeOrder, type1) > indexOf(typeOrder, type2) THEN type1
    ELSE type2

\* The types of two JSON values widened by the converter and by the exporter.
ApplyConvertGetWiderType ==
    /\ call = NoCall
    /\ \E v1 \in JsonValues, v2 \in JsonValues :
          /\ call' = [op |-> "convert.getWiderType", jsonValues |-> <<v1, v2>>]
          /\ ret' = [inferred |-> <<inferSqlType(v1), inferSqlType(v2)>>,
                     converter |-> convert_getWiderType(inferSqlType(v1), inferSqlType(v2)),
                     exporter |-> getWiderType(inferSqlType(v1), inferSqlType(v2))]
    /\ UNCHANGED <<driverVars, streamVars, pageVars>>

FnNext ==
    \/ ApplyNormalizeCollectionPath
    \/ ApplyFilename
    \/ ApplyFilenames
    \/ ApplyGetWiderType
    \/ ApplyMergeSchemas
    \/ ApplyResolveColumn
    \/ ApplyTransformValue
    \/ ApplyTransformDocument
    \/ ApplyExportTwice
    \/ ApplyConvertGetWiderType
    \/ FnReturn

FnSpec == FnInit /\ [][FnNext]_vars

----
\* C14: two collection paths with the same sequence of collection names have
\* the same normalized path, whatever the document ids between the names.
C14_SameNamesSameTable ==
    (call.op = "normalizeCollectionPath" /\ call.nameLists[1] = call.nameLists[2]) =>
        ret.normalized[1] = ret.normalized[2]

C14_Witness ==
    /\ call.op = "normalizeCollectionPath"
    /\ call.nameLists[1] = call.nameLists[2]
    /\ call.paths[1] # call.paths[2]
    /\ ret.normalized[1] = <<"a", "_", "_", "b">>

\* C15: two collection paths whose sequences of collection names differ have
\* different normalized paths.
C15_DifferentNamesDifferentTables ==
    (call.op = "normalizeCollectionPath" /\ call.nameLists[1] # call.nameLists[2]) =>
        ret.normalized[1] # ret.normalized[2]

\* C16: the artifacts of the table of a sub-collection are named after the
\* normalized path: <normalized path>.json and <normalized path>.sql.
C16_FileNamedAfterNormalizedPath ==
    (call.op = "filename" /\ Len(call.names) > 1) =>
        /\ ret.json = join(call.names, <<"_", "_">>) \o <<".", "j", "s", "o", "n">>
        /\ ret.sql = join(call.names, <<"_", "_">>) \o <<".", "s", "q", "l">>

\* C17: in the row written for a document the id column holds the document id
\* and the _path column the document path, whatever fields the document has,
\* and the schema keeps NVARCHAR(255) and NVARCHAR(500) for them.
C17_SyntheticColumnsKept ==
    call.op = "transformDocument" =>
        LET doc == call.doc
        IN  /\ get(ret.sqlRow.data, ID) = Str(doc.id)
            /\ get(ret.sqlRow.data, PATH) = Str(doc.path)
            /\ get(ret.sqlRow.schema, ID) = "NVARCHAR(255)"
            /\ get(ret.sqlRow.schema, PATH) = "NVARCHAR(500)"
            /\ get(ret.jsonRow, ID) = Str(doc.id)
            /\ get(ret.jsonRow, PATH) = Str(doc.path)

C19_WidenIsSemilattice ==
    /\ call.op = "getWiderType" =>
          /\ ret.aa = call.types[1]
          /\ ret.ab = ret.ba
          /\ ret.ab_c = ret.a_bc
    /\ call.op = "mergeSchemas" =>
          /\ RangeOf(keys(ret.merged[1])) = RangeOf(keys(ret.merged[2]))
          /\ \A field \in RangeOf(keys(ret.merged[1])) : get(ret.merged[1], field) = get(ret.merged[2], field)

C19_Witness ==
    /\ call.op = "mergeSchemas"
    /\ call.schemas[1] = SchemaWith("NVARCHAR(50)")
    /\ call.schemas[2] = SchemaWith("DATETIME2")
    /\ call.schemas[3] = SchemaWith("INT")
    /\ call.perm = <<3, 2, 1>>
    /\ get(ret.merged[1], <<"f">>) = "NVARCHAR(MAX)"

\* The number of characters a column of the type holds (0: not a text type).
Capacity(sqlType) ==
    CASE sqlType = "NVARCHAR(50)" -> 50
      [] sqlType = "NVARCHAR(100)" -> 100
      [] sqlType = "NVARCHAR(255)" -> 255
      [] sqlType = "NVARCHAR(500)" -> 500
      [] sqlType = "NVARCHAR(1000)" -> 1000
      [] sqlType = "NVARCHAR(4000)" -> 4000
      [] sqlType = "NVARCHAR(MAX)" -> 1073741823
      [] OTHER -> 0

\* The number of characters of a value written as text.
TextLength(value) ==
    CASE value.kind \in {"string", "geopoint", "reference", "array", "object", "bytes"} ->
            value.length
      [] value.kind = "timestamp" -> IsoLength
      [] value.kind = "boolean" -> 1
      [] value.kind = "number" -> IsoLength
      [] OTHER -> 0

Fits32(value) ==
    \/ value.base = "zero"
    \/ value.base = "max32" /\ value.off <= 0
    \/ value.base = "min32" /\ value.off >= 0

\* A column of the type can store the value (NaN and Infinity are stored as NULL).
CanHold(sqlType, value) ==
    CASE value.kind = "null" -> TRUE
      [] value.kind = "number" /\ ~value.finite -> TRUE
      [] Capacity(sqlType) > 0 -> TextLength(value) <= Capacity(sqlType)
      [] sqlType = "DATETIME2" -> value.kind = "timestamp"
      [] sqlType = "FLOAT" -> value.kind \in {"number", "boolean"}
      [] sqlType = "BIGINT" -> value.kind = "boolean" \/ (value.kind = "number" /\ value.integer)
      [] sqlType = "INT" ->
            value.kind = "boolean" \/ (value.kind = "number" /\ value.integer /\ Fits32(value))
      [] sqlType = "BIT" ->
            \/ value.kind = "boolean"
            \/ value.kind = "number" /\ value.integer /\ value.base = "zero" /\ value.off \in {0, 1}

\* C20: the type resolved for a column can store every value observed for it:
\* text and a timestamp do not resolve to DATETIME2, a text of n characters
\* gets a tier of at least n, an integer beyond 32 bits does not get INT.
C20_ResolvedTypeHoldsValues ==
    call.op = "resolveColumn" =>
        /\ CanHold(ret.sqlType, call.values[1])
        /\ CanHold(ret.sqlType, call.values[2])

----
\* The reference rule for widening: the numeric family, and the place of each
\* type in the hierarchy, written out.
NumericFamily == {"BIT", "INT", "BIGINT", "FLOAT"}

Place ==
    [type \in ColumnTypes |->
        CASE type = "BIT" -> 1 [] type = "INT" -> 2 [] type = "BIGINT" -> 3
          [] type = "FLOAT" -> 4 [] type = "NVARCHAR(50)" -> 5
          [] type = "NVARCHAR(100)" -> 6 [] type = "NVARCHAR(255)" -> 7
          [] type = "NVARCHAR(500)" -> 8 [] type = "NVARCHAR(1000)" -> 9
          [] type = "NVARCHAR(4000)" -> 10 [] type = "NVARCHAR(MAX)" -> 11
          [] type = "DATETIME2" -> 12]

Reference(a, b) ==
    IF a = b THEN a
    ELSE IF "NVARCHAR(MAX)" \in {a, b} THEN "NVARCHAR(MAX)"
    ELSE IF Cardinality({a, b} \cap NumericFamily) = 1 THEN "NVARCHAR(MAX)"
    ELSE CHOOSE type \in {a, b} : \A other \in {a, b} : Place[other] <= Place[type]

\* C21: for every pair of column types getWiderType gives what the reference
\* rule gives; a field holding an integer in one document and a fraction in
\* another resolves to FLOAT, and one holding an integer and a short string
\* resolves to NVARCHAR(MAX).
C21_WidenMatchesReference ==
    /\ call.op = "getWiderType" =>
          /\ ret.ab = Reference(call.types[1], call.types[2])
          /\ ret.ba = Reference(call.types[2], call.types[1])
    /\ call.op = "resolveColumn" =>
          LET v1 == call.values[1]
              v2 == call.values[2]
              smallInteger(v) == v.kind = "number" /\ v.integer /\ v.base = "zero"
              fraction(v) == v.kind = "number" /\ v.finite /\ ~v.integer
              shortString(v) == v.kind = "string" /\ v.length <= 50
          IN  /\ smallInteger(v1) /\ fraction(v2) => ret.sqlType = "FLOAT"
              /\ fraction(v1) /\ smallInteger(v2) => ret.sqlType = "FLOAT"
              /\ smallInteger(v1) /\ shortString(v2) => ret.sqlType = "NVARCHAR(MAX)"
              /\ shortString(v1) /\ smallInteger(v2) => ret.sqlType = "NVARCHAR(MAX)"

C21_Witness ==
    /\ call.op = "resolveColumn"
    /\ call.values[1] = Integer("zero", 5)
    /\ call.values[2] = Text(1)
    /\ ret.sqlType = "NVARCHAR(MAX)"

----
\* The logical tables below the root that receive at least one document: the
\* normalized paths of the non-empty collections of the subtree other than the
\* root collection.
ReceivingSubTables ==
    {normalizeCollectionPath(cp) : cp \in {x \in DOMAIN store : x # Root /\ store[x] # <<>>}}

\* C22: the subcollections count streamCollections returns is the number of
\* distinct normalized paths below the root that received a document: 0 when
\* the root collection has no sub-collection, 1 when the only sub-collection is
\* the orders of one document; the root table is not counted.
C22_SubcollectionsCount ==
    spc = "returned" =>
        /\ results.subcollections = Cardinality(ReceivingSubTables)
        /\ DOMAIN store = {Root} => results.subcollections = 0
        /\ \A k \in 1..MaxDocs :
              LET orders == Slash(Slash(Root, Ids[k]), <<"o">>)
              IN  DOMAIN store = {Root, orders} /\ store[orders] # <<>> =>
                      results.subcollections = 1

\* Two documents of the root have orders: one table, counted once.
C22_Witness ==
    /\ spc = "returned"
    /\ Cardinality(DOMAIN store) = 3
    /\ Cardinality(ReceivingSubTables) = 1
    /\ results.subcollections = 1
    /\ results.totalDocs > 3

----
\* collectDocuments in detail (PageSpec): the pages of one collection, read
\* while other clients of the database may insert and delete its documents.

\* Largest key of a document of the collection, and largest batch size.
MaxKeys == 4

\* Document keys; a query without orderBy returns documents in key order.
DocKeys == 1..MaxKeys

\* The keys of a set, ascending.
RECURSIVE inKeyOrder(_)
inKeyOrder(keySet) ==
    IF keySet = {} THEN <<>>
    ELSE LET least == CHOOSE k \in keySet : \A other \in keySet : k <= other
         IN  <<least>> \o inKeyOrder(keySet \ {least})

\* Mutant: startAt instead of startAfter.
queryGet_startAt(content, cursor, limit) ==
    LET after == inKeyOrder({k \in content : k >= cursor})
    IN  SubSeq(after, 1, IF limit < Len(after) THEN limit ELSE Len(after))

\* Mutant: a cursor whose document is gone is ignored.
queryGet_lostCursor(content, cursor, limit) ==
    LET after == inKeyOrder({k \in content : k > cursor \/ cursor \notin content})
    IN  SubSeq(after, 1, IF limit < Len(after) THEN limit ELSE Len(after))

\* collectionRef.limit(limit).startAfter(cursor).get(), lines 45-51: the first
\* `limit` documents whose key is greater than the cursor's (cursor 0: from
\* the start); the cursor is a position, its document need not exist any more.
queryGet(content, cursor, limit) ==
    LET after == inKeyOrder({k \in content : k > cursor})
    IN  SubSeq(after, 1, IF limit < Len(after) THEN limit ELSE Len(after))

PageInit ==
    /\ options = [format |-> "both", collections |-> <<>>, resume |-> FALSE, reset |-> FALSE]
    /\ continueOnError = TRUE
    /\ DriverRest
    /\ StreamIdle
    /\ FnIdle
    /\ collectionRef \in SUBSET DocKeys
    /\ batchSize \in 1..MaxKeys
    /\ pageDocuments = <<>>
    /\ lastDoc = 0
    /\ batchNumber = 0
    /\ ppc = "fetch"
    /\ fetches = 0
    /\ stable = collectionRef
    /\ changed = FALSE
    /\ writesAhead = FALSE

\* Lines 44-78: one turn of the loop.  No run of the program makes more than
\* MaxKeys + 1 fetches; the guard keeps the mutants finite.
Fetch ==
    /\ ppc = "fetch"
    /\ fetches <= MaxKeys
    /\ fetches' = fetches + 1
    /\ LET snapshot == queryGet(collectionRef, lastDoc, batchSize)
       IN  IF snapshot = <<>>
           THEN /\ ppc' = "returned"
                /\ UNCHANGED <<pageDocuments, lastDoc, batchNumber>>
           ELSE /\ pageDocuments' = pageDocuments \o snapshot
                /\ lastDoc' = snapshot[Len(snapshot)]
                /\ batchNumber' = batchNumber + 1
                /\ ppc' = IF Len(snapshot) < batchSize THEN "returned" ELSE "fetch"
    /\ UNCHANGED <<collectionRef, batchSize, stable, changed, writesAhead, driverVars,
                   streamVars, fnVars>>

\* Another client creates a document while collectDocuments awaits or is
\* between two fetches.
Insert ==
    /\ ppc = "fetch"
    /\ fetches > 0
    /\ \E k \in DocKeys \ collectionRef :
          /\ collectionRef' = collectionRef \cup {k}
          /\ writesAhead' = (writesAhead \/ k > lastDoc)
    /\ changed' = TRUE
    /\ UNCHANGED <<batchSize, pageDocuments, lastDoc, batchNumber, ppc, fetches, stable,
                   driverVars, streamVars, fnVars>>

\* Another client deletes a document.
Delete ==
    /\ ppc = "fetch"
    /\ fetches > 0
    /\ \E k \in collectionRef :
          /\ collectionRef' = collectionRef \ {k}
          /\ stable' = stable \ {k}
          /\ writesAhead' = (writesAhead \/ k > lastDoc)
    /\ changed' = TRUE
    /\ UNCHANGED <<batchSize, pageDocuments, lastDoc, batchNumber, ppc, fetches,
                   driverVars, streamVars, fnVars>>

PageNext ==
    \/ Fetch
    \/ Insert
    \/ Delete

PageSpec == PageInit /\ [][PageNext]_vars

\* C23: a collection of n documents that no one changes, read with batch size
\* b >= 1: collectDocuments returns the n documents once each in key order,
\* after floor(n / b) + 1 fetches; every fetch but the last returned b
\* documents, and the last returned fewer (none when n is a multiple of b).
C23_PagesOfUnchangedCollection ==
    ~changed =>
        LET n == Cardinality(collectionRef)
        IN  /\ ppc = "returned" =>
                  /\ pageDocuments = inKeyOrder(collectionRef)
                  /\ fetches = (n \div batchSize) + 1
                  /\ batchNumber = IF n % batchSize = 0 THEN fetches - 1 ELSE fetches
            /\ ppc = "fetch" =>
                  /\ Len(pageDocuments) = fetches * batchSize
                  /\ fetches <= n \div batchSize

\* Exactly batchSize documents: the second page is empty and ends the read.
C23_Witness ==
    /\ ~changed
    /\ ppc = "returned"
    /\ Cardinality(collectionRef) = batchSize
    /\ batchSize = 2
    /\ fetches = 2
    /\ batchNumber = 1

\* C24: when the other writers only insert or delete documents whose key is
\* at or before the last key read, no document is returned twice and every
\* document that was there throughout the read is returned.
C24_NoSkipNoRepeat ==
    ~writesAhead =>
        /\ \A j, k \in DOMAIN pageDocuments : pageDocuments[j] = pageDocuments[k] => j = k
        /\ ppc = "returned" => stable \subseteq RangeOf(pageDocuments)
        /\ ppc = "fetch" => \A k \in stable : k <= lastDoc => k \in RangeOf(pageDocuments)

\* The document of the cursor was deleted between two fetches, and a document
\* before it was created.
C24_Witness ==
    /\ changed /\ ~writesAhead
    /\ ppc = "returned"
    /\ lastDoc = 4
    /\ 2 \notin collectionRef
    /\ 1 \in collectionRef \ RangeOf(pageDocuments)
    /\ pageDocuments = <<2, 3, 4>>
    /\ stable = {3, 4}

----
\* The nodes whose documents were asked of the store, in order.
CollectedNodes == SelectSeq(dequeued, LAMBDA node : node.collected)

CollectedPaths == {CollectedNodes[k].path : k \in DOMAIN CollectedNodes}

QueuedPaths == {queue[k].path : k \in DOMAIN queue}

\* The collection a collection path hangs under, and the document it belongs to.
ParentDocument(path) ==
    LET parts == split(path, "/") IN join(SubSeq(parts, 1, Len(parts) - 1), <<"/">>)

ParentCollection(path) ==
    LET parts == split(path, "/") IN join(SubSeq(parts, 1, Len(parts) - 2), <<"/">>)

\* The document has been returned by the store and its sub-collections listed.
Listed(docPath) ==
    /\ \E k \in DOMAIN byPath :
          \E j \in DOMAIN byPath[k].documents : byPath[k].documents[j].path = docPath
    /\ \A j \in DOMAIN current.documents :
          current.documents[j].path = docPath => j < current.d

\* C25: no collection path is collected twice; a collected path other than
\* the root hangs under a document of a path collected before it, one level
\* up; every child collection the store reports for a document whose
\* sub-collections were listed is collected or waits in the queue, and when the
\* queue has drained every collection of the subtree has been collected.
C25_EachPathCollectedOnce ==
    /\ \A j, k \in DOMAIN CollectedNodes :
          CollectedNodes[j].path = CollectedNodes[k].path => j = k
    /\ \A k \in DOMAIN CollectedNodes :
          LET node == CollectedNodes[k]
          IN  IF node.path = Root THEN node.depth = 0 /\ k = 1
              ELSE \E j \in 1..(k - 1) :
                      /\ CollectedNodes[j].path = ParentCollection(node.path)
                      /\ node.depth = CollectedNodes[j].depth + 1
    /\ \A path \in DOMAIN store \ {Root} :
          Listed(ParentDocument(path)) => path \in CollectedPaths \cup QueuedPaths
    /\ spc \in {"flush", "returned", "threw"} => CollectedPaths = DOMAIN store

\* Three levels: u, the orders of two of its documents, and the items of an
\* order of each.
C25_Witness ==
    /\ spc = "returned"
    /\ Len(CollectedNodes) = 5
    /\ CollectedNodes[5].depth = 2
    /\ CollectedPaths = DOMAIN store

----
\* C26 as stated: every call in which the store calls return ends with
\* streamCollections returning its result.
C26_Original == <>(spc = "returned")

\* C26: in a call in which every store call returns, the queue becomes empty
\* and the flush starts, and the call ends: streamCollections returns its
\* result, or throws the error of a sink when continueOnError is off; the
\* nodes leave the queue in non-decreasing depth order.
C26_TraversalTerminates ==
    /\ <>(queue = <<>> /\ spc = "flush")
    /\ <>(spc = "returned" \/ (spc = "threw" /\ ~continueOnError))
    /\ [](\A j, k \in DOMAIN dequeued : j < k => dequeued[j].depth <= dequeued[k].depth)
    /\ [](spc = "returned" => results.totalDocs = Cardinality(AllDocuments))

\* A subtree of three levels has been walked and written.
C26_Witness ==
    /\ spc = "returned"
    /\ Len(dequeued) = 5
    /\ dequeued[2].depth = 1 /\ dequeued[3].depth = 1
    /\ dequeued[4].depth = 2 /\ dequeued[5].depth = 2
    /\ sinkCalls # <<>>

----
\* The documents of a logical table in traversal-discovery order: node after
\* node as they were collected, and within a node as the store holds them.
RECURSIVE DiscoveryOrder(_, _)
DiscoveryOrder(nodes, table) ==
    IF nodes = <<>> THEN <<>>
    ELSE LET path == Head(nodes).path
             ofNode == IF normalizeCollectionPath(path) = table
                       THEN [k \in DOMAIN store[path] |-> Slash(path, store[path][k])]
                       ELSE <<>>
         IN  ofNode \o DiscoveryOrder(Tail(nodes), table)

\* The _path of the rows a sink writes when called with these arguments, in
\* the order of the rows in its file.
RowsWritten(sinkCall) ==
    IF sinkCall.sink = "json"
    THEN LET rows == exportToJson(sinkCall.path, sinkCall.documents, 1).content.documents
         IN  [k \in DOMAIN rows |-> get(rows[k], PATH).text]
    ELSE LET content == exportToSql(sinkCall.path, sinkCall.documents, 1).content
             column == indexOf(keys(content.schema), PATH) + 1
         IN  [k \in DOMAIN content.inserts |-> content.inserts[k][column].text]

\* C27: the records of every logical table are in traversal-discovery order,
\* and each sink writes its rows in that order.
C27_RecordsInDiscoveryOrder ==
    /\ spc # "storeFailed" =>
          \A k \in DOMAIN byPath :
              [j \in DOMAIN byPath[k].documents |-> byPath[k].documents[j].path]
                  = DiscoveryOrder(CollectedNodes, byPath[k].path)
    /\ \A k \in DOMAIN sinkCalls :
          ~sinkCalls[k].threw =>
              RowsWritten(sinkCalls[k]) = DiscoveryOrder(CollectedNodes, sinkCalls[k].path)

\* The orders of two documents of u are one table: the rows of the first
\* document's orders come before those of the second's, in both files.
C27_Witness ==
    /\ spc = "returned"
    /\ \E j, k \in DOMAIN sinkCalls :
          /\ sinkCalls[j].sink = "json" /\ sinkCalls[k].sink = "sql"
          /\ ~sinkCalls[j].threw /\ ~sinkCalls[k].threw
          /\ RowsWritten(sinkCalls[j]) = RowsWritten(sinkCalls[k])
          /\ RowsWritten(sinkCalls[j]) =
                << <<"u", "/", "1", "/", "o", "/", "6">>, <<"u", "/", "1", "/", "o", "/", "7">>,
                   <<"u", "/", "2", "/", "o", "/", "6">>, <<"u", "/", "2", "/", "o", "/", "7">> >>

----
\* The collection node a document was read from.
CollectionOf(docPath) ==
    LET parts == split(docPath, "/") IN join(SubSeq(parts, 1, Len(parts) - 1), <<"/">>)

\* The documents streamCollections holds in memory: those of the node being
\* processed and those kept in the Map documentsByPath.
HeldDocuments ==
    {current.documents[j].path : j \in DOMAIN current.documents}
        \cup UNION {{byPath[k].documents[j].path : j \in DOMAIN byPath[k].documents} :
                        k \in DOMAIN byPath}

\* C28: at every point of a traversal the documents held in memory belong to
\* at most one collection node.
C28_OneNodeResident ==
    Cardinality({CollectionOf(docPath) : docPath \in HeldDocuments}) <= 1

----
\* C29: when a page fetch or a listing of sub-collections fails, the call
\* ends there with the error (nothing in streamCollections handles it) and no
\* sink has been called: no artifact file is written or modified.
C29_StoreErrorWritesNothing ==
    spc = "storeFailed" =>
        /\ sinkCalls = <<>>
        /\ results.jsonFiles = 0 /\ results.sqlFiles = 0
        /\ ~ENABLED StreamNext

\* The listing fails at a document of the second node, after two tables have
\* received documents.
C29_Witness ==
    /\ spc = "storeFailed"
    /\ Len(byPath) = 2
    /\ current.depth = 1
    /\ queue # <<>>

----
\* C30: two distinct logical tables of one run are never written to the same
\* artifact file, by either sink.
C30_DistinctTablesDistinctFiles ==
    (call.op = "filenames" /\ ret.tables[1] # ret.tables[2]) =>
        /\ ret.jsonNames[1] # ret.jsonNames[2]
        /\ ret.sqlNames[1] # ret.sqlNames[2]

----
\* The requested collections that the loaded checkpoint does not list as
\* completed, in the order of the request.
Incomplete == SelectSeq(Given, LAMBDA c : c \notin RangeOf(savedState.completed))

\* C31: on a resumed run the remaining root collections are traversed in the
\* order in which they were requested, starting from the first incomplete one:
\* loading and validating the checkpoint does not change their relative order.
C31_ResumedInRequestedOrder ==
    resuming => \A k \in DOMAIN Traversed : Traversed[k] = Incomplete[k]

----
----
\* C33: when a compatible checkpoint is resumed and every requested root
\* collection is already in its completed list, the run traverses nothing,
\* writes no artifact, deletes the checkpoint and ends normally.
C33_AllCompletedEndsAtOnce ==
    (resuming /\ RangeOf(Given) \subseteq RangeOf(savedState.completed)) =>
        /\ pc = "finished"
        /\ log = <<>>
        /\ written = {}
        /\ ~stateFile.exists

\* The checkpoint lists both requested collections as completed (the run that
\* wrote it was killed before its final summary).
C33_Witness ==
    /\ resuming /\ pc = "finished"
    /\ savedState.exists
    /\ Cardinality(RangeOf(Given)) = 2
    /\ RangeOf(Given) \subseteq RangeOf(savedState.completed)

----
\* C34: when the format is none of json, sql and both, streamCollections
\* still traverses the whole subtree, invokes no sink (no artifact is written
\* and no sink can fail), returns without error with no file counted, and the
\* driver then records the root collection as completed in the checkpoint.
C34_UnknownFormatCompletes ==
    [][(options.format \notin {"json", "sql", "both"} /\ pc = "flush") =>
          /\ documentsByPath = TablesOf[remainingCollections[i]]
          /\ written = {} /\ written' = {}
          /\ ~ENABLED SinkWriteFails
          /\ pc' \in {"flush", "loop", "crashed"}
          /\ pc' = "loop" =>
                /\ log'[Len(log')] = [status |-> "ok", name |-> remainingCollections[i]]
                /\ stateFile'.exists
                /\ stateFile'.completed = Append(currentState.completed,
                                                 remainingCollections[i])]_vars

\* A run with an unknown format has gone through the tables of a root
\* collection that has a sub-collection and recorded it as completed.
C34_Witness ==
    /\ options.format \notin {"json", "sql", "both"}
    /\ pc = "loop"
    /\ log # <<>> /\ log[Len(log)].status = "ok"
    /\ Len(TablesOf[log[Len(log)].name]) > 1
    /\ stateFile.exists
    /\ log[Len(log)].name \in RangeOf(stateFile.completed)

----
\* C35: a field that is null (or undefined) in at least one document of a
\* table resolves to NVARCHAR(MAX) in the merged schema, whatever types the
\* field has in the other documents and wherever the null comes in their order:
\* null is inferred as NVARCHAR(MAX), and NVARCHAR(MAX) absorbs every type.
C35_NullResolvesToMax ==
    /\ (call.op = "resolveColumn" /\ Null \in RangeOf(call.values)) =>
          ret.sqlType = "NVARCHAR(MAX)"
    /\ (/\ call.op = "mergeSchemas"
        /\ \E k \in 1..3 : /\ has(call.schemas[k], <<"f">>)
                           /\ get(call.schemas[k], <<"f">>) = transformValue(Null).sqlType) =>
          \A k \in 1..2 : get(ret.merged[k], <<"f">>) = "NVARCHAR(MAX)"

\* The other document holds a timestamp, whose type is the last of the
\* hierarchy, and comes after the null.
C35_Witness ==
    /\ call.op = "resolveColumn"
    /\ call.values = <<Null, [kind |-> "timestamp"]>>
    /\ ret.sqlType = "NVARCHAR(MAX)"

----
\* C36: for a finite number transformValue infers INT exactly when the value
\* is an integer from -2147483648 to 2147483647, BIGINT exactly when it is an
\* integer outside that range, and FLOAT exactly when it is not an integer; the
\* value itself is passed through unchanged.
C36_NumberTiers ==
    (call.op = "transformValue" /\ call.value.kind = "number" /\ call.value.finite) =>
        /\ ret.transformed.sqlType = "INT" <=> (call.value.integer /\ Fits32(call.value))
        /\ ret.transformed.sqlType = "BIGINT" <=> (call.value.integer /\ ~Fits32(call.value))
        /\ ret.transformed.sqlType = "FLOAT" <=> ~call.value.integer
        /\ ret.transformed.value = call.value

\* 2147483647, the last integer of the range, is typed INT.
C36_Witness ==
    /\ call.op = "transformValue"
    /\ call.value = Integer("max32", 0)
    /\ ret.transformed.sqlType = "INT"

----
\* C37: the rewritten value transformValue returns for a top-level field is
\* always storage-ready, that is null, a number or a string, never a composite
\* value: a geographic point is rewritten to the JSON string of its latitude
\* and longitude, as arrays and nested objects are to their JSON string.
C37_RewrittenValueIsScalar ==
    call.op = "transformValue" =>
        ret.transformed.value.kind \in {"null", "number", "string"}

----
\* The column of the SQL row that holds the rewritten value of field k of the
\* document is named `name`.
HeldIn(name, k) ==
    /\ has(ret.sqlRow.data, name)
    /\ get(ret.sqlRow.data, name) = transformValue(call.doc.data[k].value).value
    /\ get(ret.sqlRow.schema, name) = transformValue(call.doc.data[k].value).sqlType

\* The names made of a sanitized name and a numeric suffix.
Suffixed(name) == {name \o <<"_">> \o decimal(n) : n \in 1..MaxFields}

----
\* The types the converter can infer, as the claim lists them.
ConverterTypes ==
    {"BIT", "INT", "BIGINT", "FLOAT", "NVARCHAR(50)", "NVARCHAR(255)", "NVARCHAR(1000)",
     "NVARCHAR(4000)", "NVARCHAR(MAX)", "DATETIME2"}

\* C39: the widening function of the JSON-to-SQL converter agrees with the
\* widening function of the exporter: the converter infers one of the ten types
\* BIT, INT, BIGINT, FLOAT, NVARCHAR(50), NVARCHAR(255), NVARCHAR(1000),
\* NVARCHAR(4000), NVARCHAR(MAX), DATETIME2, and for every pair of them both
\* getWiderType functions return the same type.
C39_ConverterWidensLikeExporter ==
    call.op = "convert.getWiderType" =>
        /\ ret.inferred[1] \in ConverterTypes /\ ret.inferred[2] \in ConverterTypes
        /\ ret.converter = ret.exporter

\* A short text and a date: both functions rank DATETIME2 above the text tier.
C39_Witness ==
    /\ call.op = "convert.getWiderType"
    /\ ret.inferred = <<"NVARCHAR(50)", "DATETIME2">>
    /\ ret.converter = "DATETIME2"
    /\ ret.exporter = "DATETIME2"

====
